---------------------------- MODULE Spec2Model ----------------------------
(***************************************************************************)
(* A model of MsgspecPlugin (plugin.py): the translator that turns msgspec *)
(* Struct classes into pydantic model classes, memoised by struct name.    *)
(*                                                                         *)
(* A type expression is a record [k, n, a]:                                *)
(*   k  the runtime shape: "plain" (an ordinary class), "NoneType",        *)
(*      "struct" (a Struct subclass), "list" / "set" / "dict" (a generic   *)
(*      alias whose __origin__ is k), "UnionType" (X | Y);                 *)
(*      in rebuilt expressions also "str" (a string forward reference),    *)
(*      "None" (the value None) and "Union" (typing.Union);                *)
(*   n  the class (for "plain" and "struct") or the string (for "str");    *)
(*   a  the sequence of type arguments (__args__).                         *)
(***************************************************************************)
EXTENDS Integers, Sequences, FiniteSets, TLC

\* Largest number of top-level to_pydantic_model_class calls in a behaviour.
MaxCalls == 3

\* Largest number of top-level calls in a behaviour of concurrent callers.
MaxConcCalls == 2

-----------------------------------------------------------------------------
(* Type expressions *)

Plain(n) == [k |-> "plain", n |-> n, a |-> <<>>]

NoneType == [k |-> "NoneType", n |-> "", a |-> <<>>]

StructT(c) == [k |-> "struct", n |-> c, a |-> <<>>]

ListOf(args) == [k |-> "list", n |-> "", a |-> args]

SetOf(args) == [k |-> "set", n |-> "", a |-> args]

DictOf(args) == [k |-> "dict", n |-> "", a |-> args]

UnionOf(args) == [k |-> "UnionType", n |-> "", a |-> args]

\* The rebuilt leaves: a string forward reference, and the value None.
StrRef(name) == [k |-> "str", n |-> name, a |-> <<>>]

NoneValue == [k |-> "None", n |-> "", a |-> <<>>]

-----------------------------------------------------------------------------
(* Struct classes.  Two classes of different modules may share __name__. *)

Classes == {"m.Owner", "m.Pet", "m.Toy", "n.Pet"}

\* struct.__name__
Name(c) ==
    CASE c = "m.Owner" -> "Owner"
      [] c = "m.Pet"   -> "Pet"
      [] c = "m.Toy"   -> "Toy"
      [] c = "n.Pet"   -> "Pet"

Names == {Name(c) : c \in Classes}

\* The sentinel msgspec.NODEFAULT.
NODEFAULT == "NODEFAULT"

\* A msgspec.structs.FieldInfo.
Field(name, type, default, factory) ==
    [name |-> name, encode_name |-> name, type |-> type,
     default |-> default, default_factory |-> factory]

\* isclass(t) and issubclass(t, Struct)
IsStruct(t) == t.k = "struct"

\* hasattr(type_, "__origin__")
HasOrigin(t) == t.k \in {"list", "set", "dict"}

TYPE_CONSTRUCTOR_MAP ==
    [r \in {"dict", "list", "set", "UnionType"} |->
        IF r = "UnionType" THEN "Union" ELSE r]

\* A faulty variant of is_complex_type: the origin test forgets set.
is_complex_type_without_set(t) ==
    (HasOrigin(t) /\ t.k \in {"list"}) \/ t.k = "UnionType"

is_complex_type(t) ==
    (HasOrigin(t) /\ t.k \in {"list", "set"}) \/ t.k = "UnionType"

handle_nested_stuct(struct, parent_name, parent_nested_structs, names) ==
    IF Name(struct) # parent_name /\ Name(struct) \notin names
    THEN Append(parent_nested_structs, struct)
    ELSE parent_nested_structs

RECURSIVE get_complex_type(_, _, _, _)
RECURSIVE TypeArgs(_, _, _, _, _, _)

\* The loop of get_complex_type over type_.__args__ from index i on: the
\* translated arguments so far (type_args) and the discovery list.
TypeArgs(args, i, type_args, parent_name, nested, names) ==
    IF i > Len(args) THEN [type_args |-> type_args, nested |-> nested]
    ELSE LET t == args[i] IN
      IF IsStruct(t)
      THEN TypeArgs(args, i + 1, Append(type_args, StrRef(Name(t.n))), parent_name,
                    handle_nested_stuct(t.n, parent_name, nested, names), names)
      ELSE IF t.k = "NoneType"
      THEN TypeArgs(args, i + 1, Append(type_args, NoneValue), parent_name,
                    nested, names)
      ELSE IF is_complex_type(t)
      THEN LET sub == get_complex_type(t, parent_name, nested, names) IN
           TypeArgs(args, i + 1, Append(type_args, sub.type), parent_name,
                    sub.nested, names)
      ELSE TypeArgs(args, i + 1, Append(type_args, t), parent_name, nested, names)

\* Returns the rebuilt composite and the discovery list as the call leaves it.
get_complex_type(type_, parent_name, parent_nested_structs, names) ==
    LET type_root == type_.k
        r == TypeArgs(type_.a, 1, <<>>, parent_name, parent_nested_structs, names)
    IN [type   |-> [k |-> TYPE_CONSTRUCTOR_MAP[type_root], n |-> "", a |-> r.type_args],
        nested |-> r.nested]

\* A faulty variant of generate_field_info: None is taken for the absence
\* of a default, where the sentinel should be.
generate_field_info_none_for_sentinel(field) ==
    LET keys == (IF "encode_name" \in DOMAIN field THEN {"alias"} ELSE {})
                \cup (IF field.default # "None" THEN {"default"} ELSE {})
                \cup (IF field.default_factory # "None"
                      THEN {"default_factory"} ELSE {})
    IN [kw \in keys |->
          CASE kw = "alias"   -> field.encode_name
            [] kw = "default" -> field.default
            [] OTHER          -> field.default_factory]

\* The keyword arguments handed to pydantic's FieldInfo: a function from the
\* keywords given to their values.
generate_field_info(field) ==
    LET keys == (IF "encode_name" \in DOMAIN field THEN {"alias"} ELSE {})
                \cup (IF field.default # NODEFAULT THEN {"default"} ELSE {})
                \cup (IF field.default_factory # NODEFAULT
                      THEN {"default_factory"} ELSE {})
    IN [kw \in keys |->
          CASE kw = "alias"   -> field.encode_name
            [] kw = "default" -> field.default
            [] OTHER          -> field.default_factory]

\* A faulty variant of NotCached: the map is not consulted.
AlwaysGenerate(struct_name, map) == TRUE

\* struct_name not in self._struct_namespace_map
NotCached(struct_name, map) == struct_name \notin DOMAIN map

\* Faulty variants of Store: the class is not in the map while its nested
\* structs are generated; the map is replaced by one holding the new entry
\* alone; an entry already present is kept (setdefault).
StoreNothing(map, struct_name, model) == map

StoreFresh(map, struct_name, model) == [n \in {struct_name} |-> model]

StoreIfAbsent(map, struct_name, model) ==
    [n \in DOMAIN map \cup {struct_name} |->
        IF n \in DOMAIN map THEN map[n] ELSE model]

\* self._struct_namespace_map[struct_name] = model
Store(map, struct_name, model) ==
    [n \in DOMAIN map \cup {struct_name} |->
        IF n = struct_name THEN model ELSE map[n]]

\* One pass of the loop of to_pydantic_model_class over fields(model_class):
\* field_definitions (in insertion order) and nested_structs after it.
FieldDefinition(field, defs, nested, struct_name, names) ==
    LET info == generate_field_info(field) IN
    IF IsStruct(field.type)
    THEN [defs   |-> Append(defs, [name |-> field.name,
                                   type |-> StrRef(Name(field.type.n)),
                                   info |-> info]),
          nested |-> handle_nested_stuct(field.type.n, struct_name, nested, names)]
    ELSE IF is_complex_type(field.type)
    THEN LET pydantic_type ==
                 get_complex_type(field.type, struct_name, nested, names)
         IN [defs   |-> Append(defs, [name |-> field.name,
                                      type |-> pydantic_type.type,
                                      info |-> info]),
             nested |-> pydantic_type.nested]
    ELSE [defs   |-> Append(defs, [name |-> field.name, type |-> field.type,
                                   info |-> info]),
          nested |-> nested]

RECURSIVE ForwardRefs(_)

\* The names a rebuilt type expression refers to by string.  A type passed
\* through unchanged holds classes, not strings.
ForwardRefs(t) ==
    IF t.k = "str" THEN {t.n}
    ELSE IF t.k \in {"list", "set", "Union"}
    THEN UNION {ForwardRefs(t.a[j]) : j \in 1..Len(t.a)}
    ELSE {}

\* The names pydantic's update_forward_refs has to look up for a model.
ModelRefs(m) == UNION {ForwardRefs(m.fields[j].type) : j \in 1..Len(m.fields)}

-----------------------------------------------------------------------------
(* The struct classes a behaviour converts *)

OwnerPets ==
    << Field("name", Plain("str"), NODEFAULT, NODEFAULT),
       Field("pets", ListOf(<<StructT("m.Pet")>>), NODEFAULT, "list") >>

OwnerAll ==
    << Field("pet", StructT("m.Pet"), NODEFAULT, NODEFAULT),
       Field("toy", StructT("m.Toy"), NODEFAULT, NODEFAULT),
       Field("spare", UnionOf(<<SetOf(<<UnionOf(<<StructT("m.Pet"), StructT("m.Toy")>>)>>),
                                NoneType>>), "None", NODEFAULT) >>

OwnerTags ==
    << Field("tags", DictOf(<<Plain("str"), StructT("m.Toy")>>), NODEFAULT, "dict"),
       Field("seen", ListOf(<<StructT("n.Pet")>>), NODEFAULT, "list") >>

PetPlain == << Field("name", Plain("str"), NODEFAULT, NODEFAULT) >>

PetFriends ==
    << Field("friends", ListOf(<<StructT("m.Pet")>>), NODEFAULT, "list"),
       Field("toy", StructT("m.Toy"), NODEFAULT, NODEFAULT) >>

PetOwner ==
    << Field("owner", StructT("m.Owner"), NODEFAULT, NODEFAULT),
       Field("age", Plain("int"), "0", NODEFAULT) >>

ToyPlain == << Field("id", Plain("int"), "0", NODEFAULT) >>

ToyOwner ==
    << Field("owner", UnionOf(<<StructT("m.Owner"), NoneType>>), "None", NODEFAULT) >>

OtherPetPlain == << Field("age", Plain("int"), NODEFAULT, NODEFAULT) >>

OtherPetToy == << Field("toy", StructT("m.Toy"), NODEFAULT, NODEFAULT) >>

\* The declarations a class may carry: what msgspec.structs.fields returns.
FieldChoices(c) ==
    CASE c = "m.Owner" -> {OwnerPets, OwnerAll, OwnerTags}
      [] c = "m.Pet"   -> {PetPlain, PetFriends, PetOwner}
      [] c = "m.Toy"   -> {ToyPlain, ToyOwner}
      [] c = "n.Pet"   -> {OtherPetPlain, OtherPetToy}

\* The classes whose construction pydantic's create_model may refuse (a
\* field name that shadows a BaseModel attribute, for one).
RejectChoices == {{}, {"m.Toy"}, {"m.Pet"}}

Threads == {"t1", "t2"}

MainThread == "t1"

-----------------------------------------------------------------------------
(* State *)

VARIABLES
    fieldsOf,               \* fields(c) of every struct class c
    rejected,               \* the classes create_model raises for
    struct_namespace_map,   \* self._struct_namespace_map: name -> model id
    models,                 \* the classes create_model has returned, by id
    stack,                  \* per thread, its to_pydantic_model_class frames
    started,                \* per thread, Len(models) when its call began
    generated,              \* per thread, the names its call ran create_model for
    invoked,                \* per name, how often create_model was called
    stored,                 \* the model ids written to the map, in order
    resolved,               \* the latest update_forward_refs: model and namespace
    log,                    \* the finished top-level calls, in order
    probe                   \* input and result of a helper called on its own

vars == <<fieldsOf, rejected, struct_namespace_map, models, stack, started,
          generated, invoked, stored, resolved, log, probe>>

NoProbe == [op |-> "none", arg |-> <<>>, out |-> <<>>, done |-> FALSE]

\* The locals of one to_pydantic_model_class call: the field the scan is at,
\* field_definitions, nested_structs, the class create_model returned, and
\* the place in the loop over nested_structs.
Frame(c) ==
    [cls |-> c, pc |-> "check", f |-> 1, defs |-> <<>>, nested |-> <<>>,
     model |-> 0, i |-> 1]

Top(t) == stack[t][Len(stack[t])]

\* The thread's stack with its top frame replaced.
WithTop(t, f) == [stack EXCEPT ![t] = [@ EXCEPT ![Len(@)] = f]]

Busy(t) == stack[t] # <<>>

\* MsgspecPlugin(): an empty map, and no call yet.
Fresh ==
    /\ struct_namespace_map = <<>>
    /\ models = <<>>
    /\ stack = [t \in Threads |-> <<>>]
    /\ started = [t \in Threads |-> 0]
    /\ generated = [t \in Threads |-> <<>>]
    /\ invoked = [n \in Names |-> 0]
    /\ stored = <<>>
    /\ resolved = [obj |-> 0, names |-> {}]
    /\ log = <<>>

Init ==
    /\ fieldsOf \in {f \in [Classes -> UNION {FieldChoices(c) : c \in Classes}] :
                        \A c \in Classes : f[c] \in FieldChoices(c)}
    /\ rejected \in RejectChoices
    /\ Fresh
    /\ probe = NoProbe

-----------------------------------------------------------------------------
(* to_pydantic_model_class, one step per action.  An exception is caught   *)
(* nowhere: it leaves every frame of the thread and ends its call.         *)

\* The record of a finished top-level call.
Outcome(t, ok, obj, err, built) ==
    [cls |-> stack[t][1].cls, ok |-> ok, obj |-> obj, err |-> err, built |-> built]

\* The models thread t has constructed since its call began.
BuiltBy(t, ms) ==
    Cardinality({j \in (started[t] + 1)..Len(ms) : ms[j].by = t})

\* The exception a call ends with: the collaborator that raised it and the
\* struct name it was working on; NoError for a call that returned.
Error(op, name) == [op |-> op, name |-> name]

NoError == Error("", "")

Raise(t, err) ==
    /\ stack' = [stack EXCEPT ![t] = <<>>]
    /\ log' = Append(log, Outcome(t, FALSE, 0, err, BuiltBy(t, models)))

\* The top-level calls begun so far.
Calls == Len(log) + Cardinality({u \in Threads : Busy(u)})

\* A caller enters to_pydantic_model_class(model_class).
Call(t, model_class) ==
    /\ ~Busy(t)
    /\ Calls < MaxCalls
    /\ stack' = [stack EXCEPT ![t] = <<Frame(model_class)>>]
    /\ started' = [started EXCEPT ![t] = Len(models)]
    /\ generated' = [generated EXCEPT ![t] = <<>>]
    /\ UNCHANGED <<fieldsOf, rejected, struct_namespace_map, models, invoked,
                   stored, resolved, log, probe>>

\* if struct_name not in self._struct_namespace_map
Check(t) ==
    /\ Busy(t)
    /\ Top(t).pc = "check"
    /\ stack' = WithTop(t, [Top(t) EXCEPT !.pc =
                    IF NotCached(Name(Top(t).cls), struct_namespace_map)
                    THEN "fields" ELSE "resolve"])
    /\ UNCHANGED <<fieldsOf, rejected, struct_namespace_map, models, started,
                   generated, invoked, stored, resolved, log, probe>>

\* for field in fields(model_class): one field
Scan(t) ==
    /\ Busy(t)
    /\ Top(t).pc = "fields"
    /\ Top(t).f <= Len(fieldsOf[Top(t).cls])
    /\ LET r == FieldDefinition(fieldsOf[Top(t).cls][Top(t).f], Top(t).defs,
                                Top(t).nested, Name(Top(t).cls),
                                DOMAIN struct_namespace_map)
       IN stack' = WithTop(t, [Top(t) EXCEPT !.f = @ + 1,
                                             !.defs = r.defs, !.nested = r.nested])
    /\ UNCHANGED <<fieldsOf, rejected, struct_namespace_map, models, started,
                   generated, invoked, stored, resolved, log, probe>>

\* The loop over the fields is exhausted.
EndScan(t) ==
    /\ Busy(t)
    /\ Top(t).pc = "fields"
    /\ Top(t).f > Len(fieldsOf[Top(t).cls])
    /\ stack' = WithTop(t, [Top(t) EXCEPT !.pc = "create"])
    /\ UNCHANGED <<fieldsOf, rejected, struct_namespace_map, models, started,
                   generated, invoked, stored, resolved, log, probe>>

\* create_model(struct_name, __config__=..., **field_definitions)
Create(t) ==
    /\ Busy(t)
    /\ Top(t).pc = "create"
    /\ LET struct_name == Name(Top(t).cls) IN
          /\ invoked' = [invoked EXCEPT ![struct_name] = @ + 1]
          /\ generated' = [generated EXCEPT ![t] = Append(@, struct_name)]
          /\ IF Top(t).cls \in rejected
             THEN /\ Raise(t, Error("create_model", struct_name))
                  /\ models' = models
             ELSE /\ models' = Append(models, [name |-> struct_name,
                                               src |-> Top(t).cls, by |-> t,
                                               fields |-> Top(t).defs])
                  /\ stack' = WithTop(t, [Top(t) EXCEPT !.pc = "store",
                                                        !.model = Len(models) + 1])
                  /\ log' = log
    /\ UNCHANGED <<fieldsOf, rejected, struct_namespace_map, started, stored,
                   resolved, probe>>

\* self._struct_namespace_map[struct_name] = <the class create_model returned>
Register(t) ==
    /\ Busy(t)
    /\ Top(t).pc = "store"
    /\ struct_namespace_map' =
          Store(struct_namespace_map, Name(Top(t).cls), Top(t).model)
    /\ stored' = Append(stored, Top(t).model)
    /\ stack' = WithTop(t, [Top(t) EXCEPT !.pc = "nested"])
    /\ UNCHANGED <<fieldsOf, rejected, models, started, generated, invoked,
                   resolved, log, probe>>

\* for nested_struct in nested_structs: self.to_pydantic_model_class(...)
CallNested(t) ==
    /\ Busy(t)
    /\ Top(t).pc = "nested"
    /\ Top(t).i <= Len(Top(t).nested)
    /\ stack' = [stack EXCEPT ![t] =
                    Append([@ EXCEPT ![Len(@)] = [Top(t) EXCEPT !.i = @ + 1]],
                           Frame(Top(t).nested[Top(t).i]))]
    /\ UNCHANGED <<fieldsOf, rejected, struct_namespace_map, models, started,
                   generated, invoked, stored, resolved, log, probe>>

\* The loop over nested_structs is exhausted.
EndNested(t) ==
    /\ Busy(t)
    /\ Top(t).pc = "nested"
    /\ Top(t).i > Len(Top(t).nested)
    /\ stack' = WithTop(t, [Top(t) EXCEPT !.pc = "resolve"])
    /\ UNCHANGED <<fieldsOf, rejected, struct_namespace_map, models, started,
                   generated, invoked, stored, resolved, log, probe>>

\* model = self._struct_namespace_map[struct_name]
\* model.update_forward_refs(**self._struct_namespace_map); return model
\* pydantic raises NameError for a forward reference the namespace lacks.
Resolve(t) ==
    /\ Busy(t)
    /\ Top(t).pc = "resolve"
    /\ LET struct_name == Name(Top(t).cls) IN
       IF struct_name \notin DOMAIN struct_namespace_map
       THEN /\ Raise(t, Error("KeyError", struct_name))
            /\ UNCHANGED resolved
       ELSE LET model == struct_namespace_map[struct_name]
                names == DOMAIN struct_namespace_map
            IN /\ resolved' = [obj |-> model, names |-> names]
               /\ IF ModelRefs(models[model]) \subseteq names
                  THEN IF Len(stack[t]) = 1
                       THEN /\ stack' = [stack EXCEPT ![t] = <<>>]
                            /\ log' = Append(log, Outcome(t, TRUE, model, NoError,
                                                          BuiltBy(t, models)))
                       ELSE /\ stack' = [stack EXCEPT ![t] = SubSeq(@, 1, Len(@) - 1)]
                            /\ log' = log
                  ELSE Raise(t, Error("update_forward_refs", struct_name))
    /\ UNCHANGED <<fieldsOf, rejected, struct_namespace_map, models, started,
                   generated, invoked, stored, probe>>

Step(t) ==
    \/ Check(t)
    \/ Scan(t)
    \/ EndScan(t)
    \/ Create(t)
    \/ Register(t)
    \/ CallNested(t)
    \/ EndNested(t)
    \/ Resolve(t)

\* One caller at a time: the single-threaded use the translator is built for.
Next ==
    \/ \E c \in Classes : Call(MainThread, c)
    \/ Step(MainThread)

Spec == Init /\ [][Next]_vars

\* A call that has begun runs on: nothing in it waits.
FairSpec == Spec /\ WF_vars(Step(MainThread))

\* Callers on several threads share one translator without a lock.
NextConc ==
    \/ \E t \in Threads, c \in Classes : Calls < MaxConcCalls /\ Call(t, c)
    \/ \E t \in Threads : Step(t)

\* The struct graphs of the concurrent behaviours: Owner lists its Pets, Pet
\* varies (plain, self-referencing, or pointing back at Owner), and no class
\* is refused.
InitConc ==
    /\ Init
    /\ rejected = {}
    /\ fieldsOf["m.Owner"] = OwnerPets
    /\ fieldsOf["m.Toy"] = ToyPlain
    /\ fieldsOf["n.Pet"] = OtherPetPlain

SpecConc == InitConc /\ [][NextConc]_vars

-----------------------------------------------------------------------------
(* generate_field_info and get_complex_type called on their own *)

\* The struct classes of the README-style example: Owner has a list of Pet.
ExampleStructs ==
    /\ fieldsOf = [c \in Classes |->
                      CASE c = "m.Owner" -> OwnerPets
                        [] c = "m.Pet"   -> PetPlain
                        [] c = "m.Toy"   -> ToyPlain
                        [] c = "n.Pet"   -> OtherPetPlain]
    /\ rejected = {}

\* Field descriptors: msgspec lets a field have a default or a factory, not both.
FieldInputs ==
    {f \in [name : {"id", "pets"}, encode_name : {"id", "pets", "petList"},
            type : {Plain("int"), ListOf(<<StructT("m.Pet")>>), StructT("m.Pet")},
            default : {NODEFAULT, "0", "None", "", "x"},
            default_factory : {NODEFAULT, "list", "dict"}] :
        f.default = NODEFAULT \/ f.default_factory = NODEFAULT}

InitFieldInfo ==
    /\ ExampleStructs
    /\ Fresh
    /\ probe \in {[op |-> "generate_field_info", arg |-> f, out |-> <<>>,
                   done |-> FALSE] : f \in FieldInputs}

ProbeFieldInfo ==
    /\ probe.op = "generate_field_info"
    /\ ~probe.done
    /\ probe' = [probe EXCEPT !.out = generate_field_info(probe.arg), !.done = TRUE]
    /\ UNCHANGED <<fieldsOf, rejected, struct_namespace_map, models, stack,
                   started, generated, invoked, stored, resolved, log>>

SpecFieldInfo == InitFieldInfo /\ [][ProbeFieldInfo]_vars

\* One or two arguments drawn from S.
ArgLists(S) == {<<x>> : x \in S} \cup {<<p[1], p[2]>> : p \in {q \in S \X S : q[1] # q[2]}}

\* X | Y has two alternatives or more, none of them a union itself.
WellFormed(t) ==
    t.k = "UnionType" =>
        (Len(t.a) >= 2 /\ \A j \in 1..Len(t.a) : t.a[j].k # "UnionType")

Composite(args) ==
    {t \in {[k |-> c, n |-> "", a |-> args] : c \in {"list", "set", "UnionType"}} :
        WellFormed(t)}

Leaves ==
    {Plain("int"), NoneType, StructT("m.Pet"), StructT("m.Toy"),
     DictOf(<<Plain("str"), StructT("m.Pet")>>)}

Composites1 == UNION {Composite(args) : args \in ArgLists(Leaves)}

Composites2 ==
    UNION {Composite(args) :
             args \in UNION {{<<x>>, <<x, l>>, <<l, x>>} :
                                x \in Composites1, l \in {NoneType, StructT("m.Pet")}}}

\* set[Pet | Toy] | None
OptionalSetOfEither ==
    UnionOf(<<SetOf(<<UnionOf(<<StructT("m.Pet"), StructT("m.Toy")>>)>>), NoneType>>)

\* The calls of get_complex_type: a composite, the struct being scanned,
\* the discovery list so far and the names the map holds.
ComplexInputs ==
    [type : Composites1 \cup Composites2 \cup {OptionalSetOfEither},
     parent_name : {"Owner", "Pet"},
     nested : {<<>>, <<"m.Toy">>},
     names : {{}, {"Pet"}}]

InitComplexType ==
    /\ ExampleStructs
    /\ Fresh
    /\ probe \in {[op |-> "get_complex_type", arg |-> x, out |-> <<>>,
                   done |-> FALSE] : x \in ComplexInputs}

ProbeComplexType ==
    /\ probe.op = "get_complex_type"
    /\ ~probe.done
    /\ probe' = [probe EXCEPT
                   !.out = get_complex_type(probe.arg.type, probe.arg.parent_name,
                                            probe.arg.nested, probe.arg.names),
                   !.done = TRUE]
    /\ UNCHANGED <<fieldsOf, rejected, struct_namespace_map, models, stack,
                   started, generated, invoked, stored, resolved, log>>

SpecComplexType == InitComplexType /\ [][ProbeComplexType]_vars

-----------------------------------------------------------------------------
(* Notions the properties are stated in *)

RECURSIVE StructsIn(_)

\* Every struct class that occurs anywhere in a declared type.
StructsIn(t) ==
    IF t.k = "struct" THEN {t.n}
    ELSE UNION {StructsIn(t.a[j]) : j \in 1..Len(t.a)}

\* The struct classes the fields of c name.
Direct(c) == UNION {StructsIn(fieldsOf[c][j].type) : j \in 1..Len(fieldsOf[c])}

RECURSIVE Closure(_)

Closure(S) ==
    LET T == S \cup UNION {Direct(c) : c \in S}
    IN IF T = S THEN S ELSE Closure(T)

\* The struct classes reachable from c through field types, c included.
Reachable(c) == Closure({c})

\* The models constructed under a name, by id.
ModelsOf(n) == {j \in 1..Len(models) : models[j].name = n}

Idle == \A t \in Threads : ~Busy(t)

\* The target type the translation rules give a declared field type.
Translated(type, struct_name) ==
    IF IsStruct(type) THEN StrRef(Name(type.n))
    ELSE IF is_complex_type(type)
    THEN get_complex_type(type, struct_name, <<>>, {}).type
    ELSE type

-----------------------------------------------------------------------------
(* Properties *)

\* C1: any two calls for one struct class that return, return the same
\* class object, the one the map holds under the struct's name, and the
\* later of the two constructs no class.
Idempotence ==
    \A i, j \in 1..Len(log) :
        (i < j /\ log[i].cls = log[j].cls /\ log[i].ok /\ log[j].ok)
        => /\ log[j].obj = log[i].obj
           /\ log[j].built = 0
           /\ Name(log[i].cls) \in DOMAIN struct_namespace_map
           /\ struct_namespace_map[Name(log[i].cls)] = log[i].obj

\* C1: a class was converted, another class after it, and the first again.
IdempotenceWitness ==
    /\ Len(log) = 3
    /\ log[1].cls = log[3].cls /\ log[2].cls # log[1].cls
    /\ log[1].ok /\ log[2].ok /\ log[3].ok
    /\ log[1].built > 0

\* C2: after the first call on a fresh translator has returned, the keys of
\* the map are exactly the names of the struct classes reachable from its
\* argument through field types.
NestedDiscoveryComplete ==
    (Len(log) = 1 /\ log[1].ok /\ Idle)
    => DOMAIN struct_namespace_map = {Name(c) : c \in Reachable(log[1].cls)}

\* C6: a call that ended with an error, repeated at once, ends with the
\* same error.
RetryReproduces ==
    \A i \in 1..(Len(log) - 1) :
        (log[i].cls = log[i + 1].cls /\ ~log[i].ok)
        => (~log[i + 1].ok /\ log[i + 1].err = log[i].err)

\* C7: the class a call returns has one field per field of the struct
\* class it was called with, under the same names, each with the type the
\* translation rules give the declared type.
GeneratedMatchesStruct ==
    \A i \in 1..Len(log) :
        log[i].ok =>
            LET m  == models[log[i].obj]
                fs == fieldsOf[log[i].cls]
            IN /\ Len(m.fields) = Len(fs)
               /\ \A j \in 1..Len(fs) :
                     /\ m.fields[j].name = fs[j].name
                     /\ m.fields[j].type = Translated(fs[j].type, Name(log[i].cls))

\* C10: whenever forward references of a model are resolved, every name
\* the model refers to by string is a key of the namespace passed.
ResolutionNamesExist ==
    resolved.obj # 0 => ModelRefs(models[resolved.obj]) \subseteq resolved.names

\* No name occurs twice in a sequence of names.
NoRepeat(seq) == \A i, j \in 1..Len(seq) : seq[i] = seq[j] => i = j

\* C3: every call ends, and within one call create_model is never run a
\* second time for a struct name.
Termination ==
    /\ \A t \in Threads : Busy(t) ~> ~Busy(t)
    /\ [](\A t \in Threads : NoRepeat(generated[t]))

\* C3: a call has returned for a struct class that is on a cycle of two or
\* more classes, one of which has a field typed as a list of itself.
TerminationWitness ==
    \E i \in 1..Len(log) :
        /\ log[i].ok
        /\ log[i].built >= 2
        /\ \E c \in Direct(log[i].cls) \ {log[i].cls} : log[i].cls \in Reachable(c)
        /\ \E c \in Reachable(log[i].cls) : c \in Direct(c)

\* A step leaves every entry of the map in place, mapped as before.
CacheKeeps ==
    \A n \in DOMAIN struct_namespace_map :
        /\ n \in DOMAIN struct_namespace_map'
        /\ struct_namespace_map'[n] = struct_namespace_map[n]

\* C4 as stated: the map starts empty, keeps every entry unchanged, and
\* create_model is invoked at most once per struct name.
CacheInvariantAsStated ==
    /\ struct_namespace_map = <<>>
    /\ [][CacheKeeps]_vars
    /\ [](\A n \in Names : invoked[n] <= 1)

\* C4 as amended: the map starts empty, keeps every entry unchanged, and
\* create_model returns at most one class per struct name; only its
\* invocations that raised can outnumber that.
CacheInvariant ==
    /\ struct_namespace_map = <<>>
    /\ [][CacheKeeps]_vars
    /\ [](\A n \in Names :
            /\ Cardinality(ModelsOf(n)) <= 1
            /\ (invoked[n] > 1 => \E c \in rejected : Name(c) = n))

\* C4: a call ran through a discovery list that names one struct twice,
\* and the map holds that struct's only class.
CacheInvariantWitness ==
    \E t \in Threads :
        /\ Busy(t)
        /\ Top(t).pc = "resolve"
        /\ \E i, j \in 1..Len(Top(t).nested) :
              /\ i < j
              /\ Top(t).nested[i] = Top(t).nested[j]
              /\ Cardinality(ModelsOf(Name(Top(t).nested[i]))) = 1
              /\ Name(Top(t).nested[i]) \in DOMAIN struct_namespace_map

\* The greatest element of a non-empty set of numbers.
Latest(S) == CHOOSE x \in S : \A y \in S : y <= x

\* The places in the store order where a class was stored under name n.
StoresOf(n) == {k \in 1..Len(stored) : models[stored[k]].name = n}

\* C5: among unlocked concurrent callers, a name can have several classes;
\* they come from different callers, and each store under the name
\* overwrites the one before: the map holds the class stored last.
RacyGeneration ==
    \A n \in Names :
        /\ \A i, j \in ModelsOf(n) : i # j => models[i].by # models[j].by
        /\ StoresOf(n) # {} =>
              /\ n \in DOMAIN struct_namespace_map
              /\ struct_namespace_map[n] = stored[Latest(StoresOf(n))]

\* C5: two callers converted the same struct class and returned different
\* class objects; both were stored under its name, and the map holds the
\* one stored second.
RaceWitness ==
    \E i, j \in 1..Len(log) :
        /\ log[i].cls = log[j].cls
        /\ log[i].ok /\ log[j].ok
        /\ log[i].obj # log[j].obj
        /\ models[log[i].obj].name = models[log[j].obj].name
        /\ \E k, l \in 1..Len(stored) :
              /\ k < l
              /\ stored[k] = log[i].obj
              /\ stored[l] = log[j].obj
        /\ struct_namespace_map[Name(log[i].cls)] = log[j].obj

RECURSIVE Isomorphic(_, _)

\* dst has the constructor of src at the root and, argument by argument in
\* the same order: a struct's name for a struct class, None for NoneType,
\* an isomorphic composite for a composite, the same type for the rest.
Isomorphic(src, dst) ==
    /\ dst.k = (CASE src.k = "list" -> "list"
                  [] src.k = "set" -> "set"
                  [] src.k = "UnionType" -> "Union")
    /\ Len(dst.a) = Len(src.a)
    /\ \A j \in 1..Len(src.a) :
          LET x == src.a[j]
              y == dst.a[j]
          IN CASE x.k = "struct" -> y = [k |-> "str", n |-> Name(x.n), a |-> <<>>]
               [] x.k = "NoneType" -> y = [k |-> "None", n |-> "", a |-> <<>>]
               [] x.k \in {"list", "set", "UnionType"} -> Isomorphic(x, y)
               [] OTHER -> y = x

DefaultPreservation ==
    (probe.op = "generate_field_info" /\ probe.done) =>
        /\ ("default" \in DOMAIN probe.out) <=> (probe.arg.default # NODEFAULT)
        /\ ("default" \in DOMAIN probe.out) => probe.out["default"] = probe.arg.default
        /\ ("default_factory" \in DOMAIN probe.out)
              <=> (probe.arg.default_factory # NODEFAULT)
        /\ ("default_factory" \in DOMAIN probe.out)
              => probe.out["default_factory"] = probe.arg.default_factory

\* C9: a field with default 0 and no factory became metadata with default 0.
DefaultPreservationWitness ==
    /\ probe.op = "generate_field_info"
    /\ probe.done
    /\ probe.arg.default = "0"
    /\ DOMAIN probe.out = {"alias", "default"}
    /\ probe.out["default"] = "0"

=============================================================================
